---- MODULE Spec2Model ----
(***************************************************************************)
(* Model of kerfmanner/Regex_FSM (src/regex_fsm.py): a pattern is split    *)
(* into tokens, the tokens are compiled into a graph of State objects, and *)
(* check_string simulates that graph on a message.                         *)
(*                                                                         *)
(* Characters are their code points (ord), strings are sequences of code   *)
(* points.  State objects live in `heap`, a sequence of records; an object *)
(* reference is an index into it (object identity).                        *)
(***************************************************************************)
EXTENDS Integers, Sequences, FiniteSets, TLC

\* ------------------------------------------------------------------ bounds
MaxPat == 4       \* longest raw pattern text drawn by InitRaw
MaxItems == 2     \* most atom-with-quantifier items drawn by InitMatch
MaxMsg == 3       \* longest message passed to check_string by NextMatch
MaxRawMsg == 1    \* longest message passed to check_string by Next
MaxContent == 4   \* longest bracket content drawn by InitClass
MaxCallMsg == 2   \* longest message passed to check_string by NextCalls
MaxDetPat == 4    \* longest pattern text drawn by InitDet
MaxDetMsg == 2    \* longest message passed to check_string by NextDet

\* -------------------------------------------------------------- characters
DASH == 45        \* "-"
DOT == 46         \* "."
STAR == 42        \* "*"
PLUS == 43        \* "+"
QMARK == 63       \* "?"
LBRACKET == 91    \* "["
RBRACKET == 93    \* "]"
CARET == 94       \* "^"

\* string.printable: digits, letters, punctuation and " \t\n\r\x0b\x0c"
Printable == (9..13) \cup (32..126)

\* the characters a message may contain: "\x01" (ASCII, not printable),
\* "a", "b", "c"
Sigma == {1, 97, 98, 99}

\* the token __init__ passes after the last pattern token: "TERMINATION"
TERMINATION == <<84, 69, 82, 77, 73, 78, 65, 84, 73, 79, 78>>

\* ---------------------------------------------------------------- helpers
Range(s) == {s[i] : i \in 1..Len(s)}

\* all strings over chars of length at most n
Strings(chars, n) == UNION {[1..k -> chars] : k \in 0..n}

RECURSIVE Flatten(_)
\* "".join(seqs)
Flatten(seqs) == IF seqs = <<>> THEN <<>> ELSE Head(seqs) \o Flatten(Tail(seqs))

\* str.isascii(): every code point below 128 (true of the empty string)
IsAscii(s) == \A i \in 1..Len(s) : s[i] < 128

\* token.startswith("[") and token.endswith("]")
IsBracketToken(s) == Len(s) >= 1 /\ s[1] = LBRACKET /\ s[Len(s)] = RBRACKET

\* ------------------------------------------------------------- tokenizer
RECURSIVE BracketLoop(_, _, _)
\* the inner while loop of get_tokens_from_pattern: start, token, stack
BracketLoop(start, token, stack) ==
    IF start /= RBRACKET /\ stack /= <<>>
    THEN LET popped == Head(stack)
             rest == Tail(stack)
         IN IF rest = <<>>
            THEN [raised |-> TRUE, token |-> token \o <<popped>>, stack |-> rest]
            ELSE BracketLoop(popped, token \o <<popped>>, rest)
    ELSE [raised |-> FALSE, token |-> token, stack |-> stack]

RECURSIVE TokenLoop(_, _)
\* the outer while loop of get_tokens_from_pattern: stack, tokens
TokenLoop(stack, tokens) ==
    IF stack = <<>>
    THEN [raised |-> FALSE, tokens |-> tokens]
    ELSE LET token == <<Head(stack)>>
             rest == Tail(stack)
         IN IF token = <<LBRACKET>>
            THEN LET r == BracketLoop(LBRACKET, token, rest)
                 IN IF r.raised
                    THEN [raised |-> TRUE, tokens |-> tokens]
                    ELSE TokenLoop(r.stack, Append(tokens, r.token))
            ELSE TokenLoop(rest, Append(tokens, token))

get_tokens_from_pattern(regex_pattern) == TokenLoop(regex_pattern, <<>>)

\* --------------------------------------------------- character-class symbols
RECURSIVE ClassLoopOpenRange(_, _, _)
\* ClassLoop with range(ord(start), ord(end)): the end of a range left out
ClassLoopOpenRange(content, i, allowed) ==
    IF i < Len(content)
    THEN IF i + 2 < Len(content) /\ content[i + 2] = DASH
         THEN ClassLoopOpenRange(content, i + 3,
                  allowed \cup (content[i + 1] .. (content[i + 3] - 1)))
         ELSE ClassLoopOpenRange(content, i + 1, allowed \cup {content[i + 1]})
    ELSE allowed

RECURSIVE ClassLoop(_, _, _)
\* the while loop of get_symbols_from_class: content, i (0-based), allowed
ClassLoop(content, i, allowed) ==
    IF i < Len(content)
    THEN IF i + 2 < Len(content) /\ content[i + 2] = DASH
         THEN ClassLoop(content, i + 3,
                        allowed \cup (content[i + 1] .. content[i + 3]))
         ELSE ClassLoop(content, i + 1, allowed \cup {content[i + 1]})
    ELSE allowed

\* get_symbols_from_class as a set; char_class is a "[...]" token
get_symbols_from_class(char_class) ==
    LET inner == SubSeq(char_class, 2, Len(char_class) - 1)
        negate == inner /= <<>> /\ inner[1] = CARET
        content == IF negate THEN Tail(inner) ELSE inner
        allowed == ClassLoop(content, 0, {})
    IN IF negate THEN Printable \ allowed ELSE allowed

\* list(set): the elements in some order.  Symbols outside Sigma never
\* compare equal to a message character; the list keeps those in Sigma.
ListOf(set) ==
    LET kept == set \cap Sigma
        n == Cardinality(kept)
    IN {f \in [1..n -> kept] : \A i, j \in 1..n : f[i] = f[j] => i = j}

\* ------------------------------------------------------------ state objects
NewState(kind, symbol, character_class, symbols) ==
    [kind |-> kind, symbol |-> symbol, character_class |-> character_class,
     symbols |-> symbols, next_states |-> <<>>]

StartState == NewState("Start", <<>>, <<>>, <<>>)
TerminationState == NewState("Termination", <<>>, <<>>, <<>>)
DotState == NewState("Dot", <<>>, <<>>, <<>>)
AsciiState(symbol) == NewState("Ascii", symbol, <<>>, <<>>)
CharacterBracketClassState(character_class, symbols) ==
    NewState("CharClass", <<>>, character_class, symbols)

\* state.next_states.append(target)
AppendEdge(h, state, target) ==
    [h EXCEPT ![state].next_states = Append(@, target)]

RECURSIVE AppendEdgesFirstOnly(_, _, _)
\* AppendEdges that returns after the first state of the list
AppendEdgesFirstOnly(h, states, target) ==
    IF states = <<>> THEN h ELSE AppendEdge(h, Head(states), target)

RECURSIVE AppendEdgesSkipLast(_, _, _)
\* AppendEdges over new_prev_states[:-1]
AppendEdgesSkipLast(h, states, target) ==
    IF Len(states) <= 1 THEN h
    ELSE AppendEdgesSkipLast(AppendEdge(h, Head(states), target),
                             Tail(states), target)

RECURSIVE AppendEdges(_, _, _)
\* for state in new_prev_states: state.next_states.append(new_state)
AppendEdges(h, states, target) ==
    IF states = <<>> THEN h
    ELSE AppendEdges(AppendEdge(h, Head(states), target), Tail(states), target)

\* check_self whose bracket-class loop returns on the first symbol
check_self_first_symbol(st, char) ==
    IF st.kind = "Start" THEN FALSE
    ELSE IF st.kind = "Termination" THEN TRUE
    ELSE IF st.kind = "Dot" THEN TRUE
    ELSE IF st.kind = "Ascii" THEN <<char>> = st.symbol
    ELSE st.symbols /= <<>> /\ st.symbols[1] = char

\* check_self of each State class; StartState returns None, which is falsy
check_self(st, char) ==
    IF st.kind = "Start" THEN FALSE
    ELSE IF st.kind = "Termination" THEN TRUE
    ELSE IF st.kind = "Dot" THEN TRUE
    ELSE IF st.kind = "Ascii" THEN <<char>> = st.symbol
    ELSE \E i \in 1..Len(st.symbols) : st.symbols[i] = char

\* check_next: TerminationState overrides it to return []
check_next(h, state, next_char) ==
    IF h[state].kind = "Termination" THEN <<>>
    ELSE SelectSeq(h[state].next_states, LAMBDA n : check_self(h[n], next_char))

\* ------------------------------------------------------------------- state
VARIABLES
    pattern,         \* regex_expr given to RegexFSM(...)
    pc,              \* "new", "build", "ready", "failed", "check", "dot"
    err,             \* exception raised by the constructor, or "none"
    heap,            \* the State objects created so far
    curr_state,      \* self.curr_state
    tokens,          \* tokens of __init__
    ti,              \* position of the for loop of __init__ in tokens
    prev_states,     \* prev_states of __init__
    tmp_next_state,  \* tmp_next_state of __init__
    necessary,       \* necessary of __init__
    message,         \* argument of the current or last check_string call
    pos,             \* position of the for loop of check_string in message
    states,          \* states of check_string
    result,          \* value returned by the last check_string: "True"/"False"
    queue,           \* queue of to_dot_file
    visited,         \* visited of to_dot_file
    state_ids,       \* state_ids of to_dot_file
    node_id,         \* node_id of to_dot_file
    dot_lines,       \* dot_lines of to_dot_file
    run,             \* which construction from this pattern text: 1 or 2
    prior            \* an earlier observation kept for comparison

build_vars == <<tokens, ti, prev_states, tmp_next_state, necessary>>
check_vars == <<message, pos, states, result>>
dot_vars == <<queue, visited, state_ids, node_id, dot_lines>>
vars == <<pattern, pc, err, heap, curr_state, build_vars, check_vars,
          dot_vars, run, prior>>

NoPrior ==
    [set |-> FALSE, failed |-> FALSE, heap |-> <<>>, message |-> <<>>,
     result |-> "none"]

\* RegexFSM(p) has been called: lines 137-141 have run, tokenization has not
Constructing(p) ==
    /\ pattern = p
    /\ pc = "new"
    /\ err = "none"
    /\ heap = <<StartState>>
    /\ curr_state = 1
    /\ tokens = <<>>
    /\ ti = 1
    /\ prev_states = <<1>>
    /\ tmp_next_state = 1
    /\ necessary = TRUE
    /\ message = <<>>
    /\ pos = 1
    /\ states = <<>>
    /\ result = "none"
    /\ queue = <<>>
    /\ visited = {}
    /\ state_ids = <<>>
    /\ node_id = 0
    /\ dot_lines = <<>>

\* ------------------------------------------------------------ the builder
\* token_case with the isascii() guard of the last case left out
token_case_any_literal(next_token) ==
    IF IsBracketToken(next_token) THEN "class"
    ELSE IF next_token = TERMINATION THEN "termination"
    ELSE IF next_token = <<DOT>> THEN "dot"
    ELSE IF next_token = <<STAR>> THEN "star"
    ELSE IF next_token = <<PLUS>> THEN "plus"
    ELSE IF next_token = <<QMARK>> THEN "qmark"
    ELSE "ascii"

\* token_case that takes "?" for "*"
token_case_qmark_as_star(next_token) ==
    IF IsBracketToken(next_token) THEN "class"
    ELSE IF next_token = TERMINATION THEN "termination"
    ELSE IF next_token = <<DOT>> THEN "dot"
    ELSE IF next_token = <<STAR>> THEN "star"
    ELSE IF next_token = <<PLUS>> THEN "plus"
    ELSE IF next_token = <<QMARK>> THEN "star"
    ELSE IF IsAscii(next_token) THEN "ascii"
    ELSE "unsupported"

\* the match statement of __init_next_state: the first case that applies
token_case(next_token) ==
    IF IsBracketToken(next_token) THEN "class"
    ELSE IF next_token = TERMINATION THEN "termination"
    ELSE IF next_token = <<DOT>> THEN "dot"
    ELSE IF next_token = <<STAR>> THEN "star"
    ELSE IF next_token = <<PLUS>> THEN "plus"
    ELSE IF next_token = <<QMARK>> THEN "qmark"
    ELSE IF IsAscii(next_token) THEN "ascii"
    ELSE "unsupported"

\* atom_prev_states that always chains from tmp_next_state
atom_prev_states_chain_only(prev, tmp, is_necessary) == <<tmp>>

\* new_prev_states of the atom cases and of "TERMINATION"
atom_prev_states(prev, tmp, is_necessary) ==
    IF is_necessary THEN <<tmp>> ELSE prev

\* star_prev_states that forgets prev_states, as the "+" case does
star_prev_states_dropped(prev, tmp) == <<tmp>>

\* new_prev_states of the "*" case
star_prev_states(prev, tmp) == prev \o <<tmp>>

\* plus_prev_states that keeps prev_states, as the "*" case does
plus_prev_states_kept(prev, tmp) == prev \o <<tmp>>

\* new_prev_states of the "+" case
plus_prev_states(prev, tmp) == <<tmp>>

\* qmark_prev_states that forgets prev_states
qmark_prev_states_dropped(prev, tmp) == <<tmp>>

\* new_prev_states of the "?" case
qmark_prev_states(prev, tmp) == prev \o <<tmp>>

\* __init_next_state; symbols is the list the bracket-class constructor got
\* from get_symbols_from_class (unused for every other token)
init_next_state(h, next_token, prev, tmp, is_necessary, symbols) ==
    LET fresh == Len(h) + 1
        case == token_case(next_token)
        atom(st) ==
            LET new_prev_states == atom_prev_states(prev, tmp, is_necessary)
            IN [raised |-> FALSE,
                heap |-> AppendEdges(Append(h, st), new_prev_states, fresh),
                prev_states |-> new_prev_states,
                new_state |-> fresh,
                necessary |-> TRUE]
        quantifier(loop, new_prev_states) ==
            [raised |-> FALSE,
             heap |-> IF loop THEN AppendEdge(h, tmp, tmp) ELSE h,
             prev_states |-> new_prev_states,
             new_state |-> tmp,
             necessary |-> FALSE]
    IN IF case = "class"
         THEN atom(CharacterBracketClassState(next_token, symbols))
       ELSE IF case = "termination" THEN atom(TerminationState)
       ELSE IF case = "dot" THEN atom(DotState)
       ELSE IF case = "star" THEN quantifier(TRUE, star_prev_states(prev, tmp))
       ELSE IF case = "plus" THEN quantifier(TRUE, plus_prev_states(prev, tmp))
       ELSE IF case = "qmark" THEN quantifier(FALSE, qmark_prev_states(prev, tmp))
       ELSE IF case = "ascii" THEN atom(AsciiState(next_token))
       ELSE [raised |-> TRUE, heap |-> h, prev_states |-> prev,
             new_state |-> tmp, necessary |-> is_necessary]

\* the lists CharacterBracketClassState(token) may end up with
SymbolLists(token) ==
    IF IsBracketToken(token) THEN ListOf(get_symbols_from_class(token))
    ELSE {<<>>}

\* __init__, line 138: tokens = self.get_tokens_from_pattern(regex_expr)
Tokenize ==
    /\ pc = "new"
    /\ LET r == get_tokens_from_pattern(pattern)
       IN IF r.raised
          THEN /\ pc' = "failed"
               /\ err' = "ValueError"
               /\ UNCHANGED tokens
          ELSE /\ pc' = "build"
               /\ tokens' = r.tokens
               /\ UNCHANGED err
    /\ UNCHANGED <<pattern, heap, curr_state, ti, prev_states, tmp_next_state,
                   necessary, check_vars, dot_vars, run, prior>>

\* __init__, lines 143-147: one iteration of the for loop
BuildToken ==
    /\ pc = "build"
    /\ ti <= Len(tokens)
    /\ \E symbols \in SymbolLists(tokens[ti]) :
         LET r == init_next_state(heap, tokens[ti], prev_states,
                                  tmp_next_state, necessary, symbols)
         IN IF r.raised
            THEN /\ pc' = "failed"
                 /\ err' = "AttributeError"
                 /\ UNCHANGED <<heap, ti, prev_states, tmp_next_state, necessary>>
            ELSE /\ heap' = r.heap
                 /\ prev_states' = r.prev_states
                 /\ tmp_next_state' = r.new_state
                 /\ necessary' = r.necessary
                 /\ ti' = ti + 1
                 /\ UNCHANGED <<pc, err>>
    /\ UNCHANGED <<pattern, curr_state, tokens, check_vars, dot_vars, run, prior>>

\* __init__, line 149: the results of the last call are dropped
BuildTermination ==
    /\ pc = "build"
    /\ ti > Len(tokens)
    /\ heap' = init_next_state(heap, TERMINATION, prev_states, tmp_next_state,
                               necessary, <<>>).heap
    /\ pc' = "ready"
    /\ UNCHANGED <<pattern, err, curr_state, build_vars, check_vars, dot_vars,
                   run, prior>>

\* ------------------------------------------------------------ the matcher
\* ExtendAll that stops after the first state of the list
ExtendAllFirstOnly(h, active, char) ==
    IF active = <<>> THEN <<>> ELSE check_next(h, Head(active), char)

RECURSIVE ExtendAll(_, _, _)
\* lines 218-221: new_states after extending it with check_next of each state
ExtendAll(h, active, char) ==
    IF active = <<>> THEN <<>>
    ELSE check_next(h, Head(active), char) \o ExtendAll(h, Tail(active), char)

\* AnyTermination that also counts a TerminationState held in the list
AnyTerminationInList(h, active) ==
    \E i \in 1..Len(active) :
        \/ h[active[i]].kind = "Termination"
        \/ \E j \in 1..Len(h[active[i]].next_states) :
               h[h[active[i]].next_states[j]].kind = "Termination"

\* lines 224-226: some state of the list has a TerminationState successor
AnyTermination(h, active) ==
    \E i \in 1..Len(active) :
        \E j \in 1..Len(h[active[i]].next_states) :
            h[h[active[i]].next_states[j]].kind = "Termination"

RECURSIVE ActiveAfter(_, _, _)
\* lines 216-223: the list states after the for loop over message m
ActiveAfter(h, active, m) ==
    IF m = <<>> THEN active
    ELSE ActiveAfter(h, ExtendAll(h, active, Head(m)), Tail(m))

\* check_string as a function of the graph, its start state and the message
check_string(h, start, m) == AnyTermination(h, ActiveAfter(h, <<start>>, m))

\* check_string(m) is called; m is a str, so line 213 does not raise
CheckStringBegin(m) ==
    /\ pc = "ready"
    /\ pc' = "check"
    /\ message' = m
    /\ pos' = 1
    /\ states' = <<curr_state>>
    /\ result' = "none"
    /\ UNCHANGED <<pattern, err, heap, curr_state, build_vars, dot_vars, run, prior>>

\* CheckStringStep with new_states aliased to the start state's successor
\* list, so that extending it adds edges to the graph
CheckStringStepAliased ==
    /\ pc = "check"
    /\ pos <= Len(message)
    /\ states' = ExtendAll(heap, states, message[pos])
    /\ heap' = [heap EXCEPT ![curr_state].next_states =
                                 @ \o ExtendAll(heap, states, message[pos])]
    /\ pos' = pos + 1
    /\ UNCHANGED <<pattern, pc, err, curr_state, build_vars, message,
                   result, dot_vars, run, prior>>

\* CheckStringStep that starts over from the start state when no state
\* accepted the character
CheckStringStepRestart ==
    /\ pc = "check"
    /\ pos <= Len(message)
    /\ states' = IF ExtendAll(heap, states, message[pos]) = <<>>
                 THEN <<curr_state>>
                 ELSE ExtendAll(heap, states, message[pos])
    /\ pos' = pos + 1
    /\ UNCHANGED <<pattern, pc, err, heap, curr_state, build_vars, message,
                   result, dot_vars, run, prior>>

\* one iteration of the for loop over message
CheckStringStep ==
    /\ pc = "check"
    /\ pos <= Len(message)
    /\ states' = ExtendAll(heap, states, message[pos])
    /\ pos' = pos + 1
    /\ UNCHANGED <<pattern, pc, err, heap, curr_state, build_vars, message,
                   result, dot_vars, run, prior>>

\* the return statement
CheckStringReturn ==
    /\ pc = "check"
    /\ pos > Len(message)
    /\ result' = IF AnyTermination(heap, states) THEN "True" ELSE "False"
    /\ pc' = "ready"
    /\ pos' = 1
    /\ states' = <<>>
    /\ UNCHANGED <<pattern, err, heap, curr_state, build_vars, message,
                   dot_vars, run, prior>>

\* ------------------------------------------------------------------ inputs
\* pattern characters of InitRaw: "a", "*", "+", "?", "[", "]", "." and a
\* non-ASCII character
RawChars == {97, STAR, PLUS, QMARK, LBRACKET, RBRACKET, DOT, 233}
RawPatterns == Strings(RawChars, MaxPat)
RawMessages == Strings({97, 98}, MaxRawMsg)

InitRaw ==
    /\ \E p \in RawPatterns : Constructing(p)
    /\ run = 1
    /\ prior = NoPrior

Next ==
    \/ Tokenize
    \/ BuildToken
    \/ BuildTermination
    \/ \E m \in RawMessages : CheckStringBegin(m)
    \/ CheckStringStep
    \/ CheckStringReturn

Spec == InitRaw /\ [][Next]_vars

\* bracket contents of InitClass: strings over "^", "-", "a", "c"
ClassContents == Strings({CARET, DASH, 97, 99}, MaxContent)
\* messages of NextClass: one character of Sigma, then "a"
ClassMessages == {<<c, 97>> : c \in Sigma}

\* the pattern is a bracket class followed by the literal "a"
InitClass ==
    /\ \E content \in ClassContents :
           Constructing(<<LBRACKET>> \o content \o <<RBRACKET, 97>>)
    /\ run = 1
    /\ prior = NoPrior

NextClass ==
    \/ Tokenize
    \/ BuildToken
    \/ BuildTermination
    \/ \E m \in ClassMessages : CheckStringBegin(m)
    \/ CheckStringStep
    \/ CheckStringReturn

SpecClass == InitClass /\ [][NextClass]_vars

\* ----------------------------------------------------------- the exporter
\* get_node_label: the kind and its parameter
get_node_label(st) ==
    IF st.kind = "Ascii" THEN <<"Ascii", st.symbol>>
    ELSE IF st.kind = "CharClass" THEN <<"CharClass", st.character_class>>
    ELSE IF st.kind = "Dot" THEN <<"Dot">>
    ELSE IF st.kind = "Start" THEN <<"Start">>
    ELSE <<"Termination">>

\* get_weight: the label of an edge into st
get_weight(st) ==
    IF st.kind = "Ascii" THEN <<"If", st.symbol>>
    ELSE IF st.kind = "CharClass" THEN <<"If", st.character_class>>
    ELSE IF st.kind = "Dot" THEN <<"Any">>
    ELSE IF st.kind = "Termination" THEN <<"Any">>
    ELSE <<0>>

RECURSIVE EdgeLoopSameId(_, _, _, _, _, _, _)
\* EdgeLoop without node_id += 1
EdgeLoopSameId(h, current, succs, ids, nid, q, lines) ==
    IF succs = <<>>
    THEN [state_ids |-> ids, node_id |-> nid, queue |-> q, dot_lines |-> lines]
    ELSE LET next_state == Head(succs)
             known == next_state \in DOMAIN ids
             ids1 == IF known THEN ids ELSE ids @@ (next_state :> nid)
         IN EdgeLoopSameId(h, current, Tail(succs), ids1, nid,
                           Append(q, next_state),
                           Append(lines, <<"edge", ids1[current],
                                           ids1[next_state],
                                           get_weight(h[next_state])>>))

RECURSIVE EdgeLoop(_, _, _, _, _, _, _)
\* lines 291-300: the for loop over current.next_states
EdgeLoop(h, current, succs, ids, nid, q, lines) ==
    IF succs = <<>>
    THEN [state_ids |-> ids, node_id |-> nid, queue |-> q, dot_lines |-> lines]
    ELSE LET next_state == Head(succs)
             known == next_state \in DOMAIN ids
             ids1 == IF known THEN ids ELSE ids @@ (next_state :> nid)
             nid1 == IF known THEN nid ELSE nid + 1
         IN EdgeLoop(h, current, Tail(succs), ids1, nid1,
                     Append(q, next_state),
                     Append(lines, <<"edge", ids1[current], ids1[next_state],
                                     get_weight(h[next_state])>>))

\* to_dot_file is called: lines 272-276
ToDotBegin ==
    /\ pc = "ready"
    /\ pc' = "dot"
    /\ state_ids' = <<>>
    /\ dot_lines' = <<<<"digraph FSM {">>>>
    /\ queue' = <<curr_state>>
    /\ visited' = {}
    /\ node_id' = 0
    /\ UNCHANGED <<pattern, err, heap, curr_state, build_vars, check_vars,
                   run, prior>>

\* one iteration of the while loop, lines 278-300
ToDotStep ==
    /\ pc = "dot"
    /\ queue /= <<>>
    /\ LET current == Head(queue)
       IN IF current \in visited
          THEN /\ queue' = Tail(queue)
               /\ UNCHANGED <<visited, state_ids, node_id, dot_lines>>
          ELSE LET known == current \in DOMAIN state_ids
                   ids1 == IF known THEN state_ids
                           ELSE state_ids @@ (current :> node_id)
                   nid1 == IF known THEN node_id ELSE node_id + 1
                   r == EdgeLoop(heap, current, heap[current].next_states,
                                 ids1, nid1, Tail(queue),
                                 Append(dot_lines,
                                        <<"node", ids1[current],
                                          get_node_label(heap[current])>>))
               IN /\ visited' = visited \cup {current}
                  /\ state_ids' = r.state_ids
                  /\ node_id' = r.node_id
                  /\ queue' = r.queue
                  /\ dot_lines' = r.dot_lines
    /\ UNCHANGED <<pattern, pc, err, heap, curr_state, build_vars, check_vars,
                   run, prior>>

\* lines 302-303: the closing line; the locals end with the call
ToDotReturn ==
    /\ pc = "dot"
    /\ queue = <<>>
    /\ dot_lines' = Append(dot_lines, <<"}">>)
    /\ pc' = "ready"
    /\ visited' = {}
    /\ state_ids' = <<>>
    /\ node_id' = 0
    /\ UNCHANGED <<pattern, err, heap, curr_state, build_vars, check_vars,
                   queue, run, prior>>

\* ------------------------------------------------------------- the callers
\* the caller keeps what a check_string call returned, and the automaton it
\* was called on, for comparison with later calls
Observe ==
    /\ pc = "ready"
    /\ result /= "none"
    /\ ~prior.set
    /\ prior' = [set |-> TRUE, failed |-> FALSE, heap |-> heap,
                 message |-> message, result |-> result]
    /\ UNCHANGED <<pattern, pc, err, heap, curr_state, build_vars, check_vars,
                   dot_vars, run>>

\* the caller keeps the outcome of the first construction and calls
\* RegexFSM(pattern) again with the same pattern text
Reconstruct ==
    /\ run = 1
    /\ pc = "failed" \/ (pc = "ready" /\ result /= "none")
    /\ prior' = [set |-> TRUE, failed |-> pc = "failed", heap |-> heap,
                 message |-> message, result |-> result]
    /\ run' = 2
    /\ pc' = "new"
    /\ err' = "none"
    /\ heap' = <<StartState>>
    /\ curr_state' = 1
    /\ tokens' = <<>>
    /\ ti' = 1
    /\ prev_states' = <<1>>
    /\ tmp_next_state' = 1
    /\ necessary' = TRUE
    /\ message' = <<>>
    /\ pos' = 1
    /\ states' = <<>>
    /\ result' = "none"
    /\ UNCHANGED <<pattern, dot_vars>>

\* patterns of InitCalls: "", "a", "a*", "a+b", ".?a", "[ab]*a", "[^a]+",
\* "a**", "*a", "a?b*"
CallPatterns ==
    {<<>>, <<97>>, <<97, STAR>>, <<97, PLUS, 98>>, <<DOT, QMARK, 97>>,
     <<LBRACKET, 97, 98, RBRACKET, STAR, 97>>,
     <<LBRACKET, CARET, 97, RBRACKET, PLUS>>, <<97, STAR, STAR>>,
     <<STAR, 97>>, <<97, QMARK, 98, STAR>>}
CallMessages == Strings({97, 98}, MaxCallMsg)

InitCalls ==
    /\ \E p \in CallPatterns : Constructing(p)
    /\ run = 1
    /\ prior = NoPrior

NextCalls ==
    \/ Tokenize
    \/ BuildToken
    \/ BuildTermination
    \/ \E m \in CallMessages : CheckStringBegin(m)
    \/ CheckStringStep
    \/ CheckStringReturn
    \/ ToDotBegin
    \/ ToDotStep
    \/ ToDotReturn
    \/ Observe

SpecCalls == InitCalls /\ [][NextCalls]_vars

\* pattern characters of InitDet: "a", "[", "]", "^"
DetPatterns == Strings({97, LBRACKET, RBRACKET, CARET}, MaxDetPat)
DetMessages == Strings({97, 98}, MaxDetMsg)

InitDet ==
    /\ \E p \in DetPatterns : Constructing(p)
    /\ run = 1
    /\ prior = NoPrior

\* the second automaton is asked about the message the first was asked about
NextDet ==
    \/ Tokenize
    \/ BuildToken
    \/ BuildTermination
    \/ \E m \in DetMessages :
           (run = 1 \/ m = prior.message) /\ CheckStringBegin(m)
    \/ CheckStringStep
    \/ CheckStringReturn
    \/ Reconstruct

SpecDet == InitDet /\ [][NextDet]_vars

\* atoms of InitMatch: "a", ".", "[^a]", "[a-b]"
MatchAtoms ==
    {<<97>>, <<DOT>>, <<LBRACKET, CARET, 97, RBRACKET>>,
     <<LBRACKET, 97, DASH, 98, RBRACKET>>}
\* an atom followed by at most one quantifier
MatchItems ==
    {atom \o q : atom \in MatchAtoms, q \in {<<>>, <<STAR>>, <<PLUS>>, <<QMARK>>}}
MatchPatterns == {Flatten(items) : items \in Strings(MatchItems, MaxItems)}
MatchMessages == Strings({97, 98}, MaxMsg)

InitMatch ==
    /\ \E p \in MatchPatterns : Constructing(p)
    /\ run = 1
    /\ prior = NoPrior

NextMatch ==
    \/ Tokenize
    \/ BuildToken
    \/ BuildTermination
    \/ \E m \in MatchMessages : CheckStringBegin(m)
    \/ CheckStringStep
    \/ CheckStringReturn

SpecMatch == InitMatch /\ [][NextMatch]_vars

\* ---------------------------------------------------------------------------
\* Reference notions the claims are stated against
\* ---------------------------------------------------------------------------
Quantifiers == {<<STAR>>, <<PLUS>>, <<QMARK>>}

\* the construction is past tokenization
Tokenized == pc /= "new" /\ ~(pc = "failed" /\ err = "ValueError")

\* the construction has returned an automaton
Built == pc \in {"ready", "check", "dot"}

\* position of the first "]" of p at or after i, or 0
FirstClose(p, i) ==
    IF \E j \in i..Len(p) : p[j] = RBRACKET
    THEN CHOOSE j \in i..Len(p) :
             p[j] = RBRACKET /\ \A k \in i..(j - 1) : p[k] /= RBRACKET
    ELSE 0

RECURSIVE RefTokensFrom(_, _)
\* the tokens of p from position i on: a "[" runs to its first following "]"
RefTokensFrom(p, i) ==
    IF i > Len(p) THEN <<>>
    ELSE IF p[i] = LBRACKET /\ FirstClose(p, i + 1) /= 0
         THEN <<SubSeq(p, i, FirstClose(p, i + 1))>>
                  \o RefTokensFrom(p, FirstClose(p, i + 1) + 1)
         ELSE <<<<p[i]>>>> \o RefTokensFrom(p, i + 1)

\* every "[" of p has a "]" somewhere after it
EachBracketClosed(p) ==
    \A i \in 1..Len(p) :
        p[i] = LBRACKET => \E j \in (i + 1)..Len(p) : p[j] = RBRACKET

\* C5 (as claimed): a pattern in which each "[" is followed later by a "]"
\* tokenizes without error, into one token per bracket expression (from "["
\* through its first following "]") and one token per other character, and
\* the tokens concatenate back to the pattern.
C5_TokensOfClosedPattern ==
    (pc /= "new" /\ EachBracketClosed(pattern)) =>
        /\ ~(pc = "failed" /\ err = "ValueError")
        /\ tokens = RefTokensFrom(pattern, 1)
        /\ Flatten(tokens) = pattern

\* C6 (as claimed): tokenization raises exactly for the patterns that hold a
\* "[" with no "]" after it, and then no automaton is produced.
C6_RaisesIffUnterminated ==
    pc /= "new" =>
        ((pc = "failed" /\ err = "ValueError") <=> ~EachBracketClosed(pattern))

\* a token of the supported grammar: a bracket class, ".", "*", "+", "?" or
\* one ASCII character
SupportedToken(t) ==
    \/ IsBracketToken(t) /\ Len(t) >= 2
    \/ Len(t) = 1 /\ t[1] < 128

\* C7: the build raises the unsupported-token error exactly when it reaches
\* the first token outside the supported grammar, no automaton is returned
\* then, and a sequence of supported tokens builds without error.
C7_UnsupportedToken ==
    Tokenized =>
        /\ \A j \in 1..(ti - 1) : SupportedToken(tokens[j])
        /\ pc = "failed" =>
              /\ err = "AttributeError"
              /\ ti \in 1..Len(tokens)
              /\ ~SupportedToken(tokens[ti])
              /\ result = "none"
        /\ Built => ti = Len(tokens) + 1

\* C7 witness: the build stopped at an unsupported second token
C7_Witness ==
    /\ pc = "failed"
    /\ err = "AttributeError"
    /\ ti = 2
    /\ Len(tokens) >= 3

\* the states that receive an edge to the next created atom (lines 163-166)
Tails == IF necessary THEN {tmp_next_state} ELSE Range(prev_states)

\* the states that have an edge to state s
Preds(h, s) == {q \in 1..Len(h) : s \in Range(h[q].next_states)}

\* the builder is about to process a "*" or a "?"
AtStarOrQmark ==
    pc = "build" /\ ti <= Len(tokens) /\ tokens[ti] \in {<<STAR>>, <<QMARK>>}

\* the edge effect of "*" (self-loop on last) and of "?" (none)
StarQmarkEdges ==
    heap' = IF tokens[ti] = <<STAR>>
            THEN AppendEdge(heap, tmp_next_state, tmp_next_state)
            ELSE heap

\* C10 (as claimed): "*" adds the self-loop, "?" adds no edge, and both set
\* tails to (old tails) union {last} and mustChain to false, in every
\* builder state.
C10_TailsUnionLast ==
    [][AtStarOrQmark =>
          /\ StarQmarkEdges
          /\ Tails' = Tails \cup {tmp_next_state}
          /\ necessary' = FALSE]_vars

\* C10 (amended): "*" adds the self-loop, "?" adds no edge, both leave last
\* and set mustChain to false; tails becomes (old tails) union {last} when
\* mustChain was false, and (the states with an edge to last) union {last}
\* when mustChain was true.
C10_TailsKeepPredecessors ==
    [][AtStarOrQmark =>
          /\ StarQmarkEdges
          /\ tmp_next_state' = tmp_next_state
          /\ Tails' = (IF necessary THEN Preds(heap, tmp_next_state) ELSE Tails)
                          \cup {tmp_next_state}
          /\ necessary' = FALSE]_vars

\* C10 witness: a "*" or "?" was processed directly after an atom that had
\* two predecessors, and all three states are tails now
C10_Witness ==
    /\ pc = "build"
    /\ ti > 2
    /\ tokens[ti - 1] \in {<<STAR>>, <<QMARK>>}
    /\ ~(tokens[ti - 2] \in Quantifiers)
    /\ Cardinality(Tails) = 3

\* token i is an atom: anything but a quantifier
IsAtom(toks, i) == ~(toks[i] \in Quantifiers)

\* every atom is directly followed by "*" or "?"
EveryAtomWrapped(toks) ==
    \A i \in 1..Len(toks) :
        IsAtom(toks, i) =>
            i < Len(toks) /\ toks[i + 1] \in {<<STAR>>, <<QMARK>>}

\* no "+" among the quantifiers that follow atom i before the next atom
NoPlusInRun(toks, i) ==
    \A j \in (i + 1)..Len(toks) :
        (\A k \in (i + 1)..j : toks[k] \in Quantifiers) => toks[j] /= <<PLUS>>

\* check_string("") has returned
ReturnedOnEmpty == pc = "ready" /\ result /= "none" /\ message = <<>>

\* C3 (as claimed): check_string("") is True iff the pattern is empty or every
\* atom is wrapped in "*" or "?".
C3_EmptyIffAllWrapped ==
    ReturnedOnEmpty => (result = "True" <=> EveryAtomWrapped(tokens))

\* C3 (amended): check_string("") is True iff every atom is directly followed
\* by "*" or "?" and no "+" occurs among the quantifiers that follow it; and
\* iff Start has an edge to the Termination state.
C3_EmptyIffAllSkippable ==
    ReturnedOnEmpty =>
        /\ result = "True" <=>
              (EveryAtomWrapped(tokens)
                  /\ \A i \in 1..Len(tokens) :
                         IsAtom(tokens, i) => NoPlusInRun(tokens, i))
        /\ result = "True" <=>
              \E q \in Range(heap[curr_state].next_states) :
                  heap[q].kind = "Termination"

\* C3 witness: "" was accepted by a pattern of two wrapped atoms
C3_Witness ==
    /\ ReturnedOnEmpty
    /\ result = "True"
    /\ Len(tokens) = 4
    /\ IsAtom(tokens, 1)
    /\ IsAtom(tokens, 3)

RECURSIVE RefExplicit(_)
\* the explicit set of a bracket content: a character, "-", a character form
\* an inclusive range; any other character stands for itself
RefExplicit(content) ==
    IF content = <<>> THEN {}
    ELSE IF Len(content) >= 3 /\ content[2] = DASH
         THEN {c \in 0..255 : content[1] <= c /\ c <= content[3]}
                  \cup RefExplicit(SubSeq(content, 4, Len(content)))
         ELSE {content[1]} \cup RefExplicit(Tail(content))

\* what the bracket token tok is to accept
RefClassAccepts(tok, c) ==
    LET inner == SubSeq(tok, 2, Len(tok) - 1)
    IN IF inner /= <<>> /\ inner[1] = CARET
       THEN c \in Printable /\ c \notin RefExplicit(Tail(inner))
       ELSE c \in RefExplicit(inner)

\* C4: a state built from "[^set]" accepts c iff c is printable and not in
\* the explicit set; one built from "[set]" accepts c iff c is in the explicit
\* set (ranges inclusive).  Stated of the symbol set computed for the token,
\* of check_self on the built state, and of check_string on c followed by "a".
C4_ClassAcceptance ==
    /\ \A s \in 1..Len(heap) :
           heap[s].kind = "CharClass" =>
               /\ pc = "build" =>
                      \A c \in 0..255 :
                          c \in get_symbols_from_class(heap[s].character_class)
                              <=> RefClassAccepts(heap[s].character_class, c)
               /\ \A c \in Sigma :
                      check_self(heap[s], c)
                          <=> RefClassAccepts(heap[s].character_class, c)
    /\ (pc = "ready" /\ result /= "none" /\ IsBracketToken(tokens[1])) =>
           (result = "True" <=>
               (Len(message) = 2 /\ message[2] = 97
                   /\ RefClassAccepts(tokens[1], message[1])))

\* C4 witness: the class "[^-a]" accepted "c" and check_string("ca")
\* returned True
C4_Witness ==
    /\ pc = "ready"
    /\ result = "True"
    /\ message = <<99, 97>>
    /\ tokens[1] = <<LBRACKET, CARET, DASH, 97, RBRACKET>>

\* C8: once the constructor has returned, no step of check_string or of
\* to_dot_file changes a state, an edge, a symbol list or the start
\* reference; and a check_string call returns what an earlier call with the
\* same message returned, whatever calls were made in between.
C8_GraphFrozen ==
    /\ [][Built => (heap' = heap /\ curr_state' = curr_state)]_vars
    /\ [](prior.set => heap = prior.heap)
    /\ []((pc = "ready" /\ prior.set /\ message = prior.message)
              => result = prior.result)

\* C8 witness: after an observed check_string call, check_string and
\* to_dot_file have both run and the same message was accepted again by an
\* automaton with a self-loop
C8_Witness ==
    /\ pc = "ready"
    /\ prior.set
    /\ prior.message = <<97, 97>>
    /\ message = <<97, 97>>
    /\ result = "True"
    /\ dot_lines /= <<>>
    /\ \E s \in 1..Len(heap) : s \in Range(heap[s].next_states)

\* C9: of two constructions from the same pattern text either both fail or
\* neither does, and then check_string returns the same result on the same
\* message, whatever order the symbol lists came out in.
C9_SameVerdict ==
    run = 2 =>
        /\ pc = "failed" => prior.failed
        /\ Built => ~prior.failed
        /\ (pc = "ready" /\ result /= "none" /\ message = prior.message)
               => result = prior.result

\* C9 witness: the two automatons differ (a symbol list came out in another
\* order) and both accepted the message
C9_Witness ==
    /\ run = 2
    /\ pc = "ready"
    /\ result = "True"
    /\ message = prior.message
    /\ heap /= prior.heap

\* C9 witness of the failing case: both constructions raised
C9_WitnessBothFail == run = 2 /\ pc = "failed" /\ prior.failed

\* what atom token tok is to accept: a bracket class by its set, "." any
\* character, a literal itself
RefAtomAccepts(tok, c) ==
    IF IsBracketToken(tok) /\ Len(tok) >= 2 THEN RefClassAccepts(tok, c)
    ELSE IF tok = <<DOT>> THEN TRUE
    ELSE tok = <<c>>

\* toks is a sequence of atoms, each followed by at most one quantifier
InGrammar(toks) ==
    \A i \in 1..Len(toks) :
        IF toks[i] \in Quantifiers
        THEN i > 1 /\ ~(toks[i - 1] \in Quantifiers)
        ELSE SupportedToken(toks[i]) /\ toks[i] /= <<LBRACKET>>

RECURSIVE RefMatchFrom(_, _, _, _)
\* the tokens from position i on match all of m from position k on, under the
\* standard meaning of the quantifiers
RefMatchFrom(toks, i, m, k) ==
    IF i > Len(toks) THEN k > Len(m)
    ELSE LET q == IF i < Len(toks) /\ toks[i + 1] \in Quantifiers
                  THEN toks[i + 1] ELSE <<>>
             rest == IF q = <<>> THEN i + 1 ELSE i + 2
             hit == k <= Len(m) /\ RefAtomAccepts(toks[i], m[k])
         IN IF q = <<>> THEN hit /\ RefMatchFrom(toks, rest, m, k + 1)
            ELSE IF q = <<QMARK>>
                 THEN \/ RefMatchFrom(toks, rest, m, k)
                      \/ hit /\ RefMatchFrom(toks, rest, m, k + 1)
            ELSE IF q = <<STAR>>
                 THEN \/ RefMatchFrom(toks, rest, m, k)
                      \/ hit /\ RefMatchFrom(toks, i, m, k + 1)
            ELSE hit /\ (\/ RefMatchFrom(toks, rest, m, k + 1)
                         \/ RefMatchFrom(toks, i, m, k + 1))

RefMatch(toks, m) == RefMatchFrom(toks, 1, m, 1)

\* the verdict check_string returned agrees with the reference
VerdictAgrees ==
    (pc = "ready" /\ result /= "none") =>
        (result = "True" <=> RefMatch(RefTokensFrom(pattern, 1), message))

\* C1 (as claimed): for every pattern of atoms with at most one quantifier
\* each, RegexFSM(pattern) is built and check_string(s) returns True iff the
\* whole of s matches the pattern.
C1_FullMatch ==
    InGrammar(RefTokensFrom(pattern, 1)) =>
        /\ pc /= "failed"
        /\ VerdictAgrees

\* C1, for the patterns the constructor accepts: the verdict is the reference
\* verdict
C1_FullMatchWhenBuilt ==
    InGrammar(RefTokensFrom(pattern, 1)) => VerdictAgrees

\* C1_FullMatchWhenBuilt was exercised: a three-character message was
\* accepted through a "+" and a "*"
C1_WhenBuiltWitness ==
    /\ pc = "ready"
    /\ result = "True"
    /\ Len(message) = 3
    /\ Len(tokens) = 4
    /\ tokens[2] = <<PLUS>>
    /\ tokens[4] = <<STAR>>

\* the automaton was built and accepts m
Accepts(m) == Built /\ check_string(heap, curr_state, m)

\* every character of x is accepted by atom tok
AllAccepted(tok, x) == \A j \in 1..Len(x) : RefAtomAccepts(tok, x[j])

\* m splits into a part matched by the tokens before atom i, n characters
\* matched by atom i, and a part matched by the tokens after its quantifier
SplitsAround(toks, i, m, a, n) ==
    /\ a + n <= Len(m)
    /\ RefMatch(SubSeq(toks, 1, i - 1), SubSeq(m, 1, a))
    /\ AllAccepted(toks[i], SubSeq(m, a + 1, a + n))
    /\ RefMatch(SubSeq(toks, i + 2, Len(toks)), SubSeq(m, a + n + 1, Len(m)))

\* the occurrence counts quantifier q allows
Allowed(q, n) ==
    IF q = <<PLUS>> THEN n >= 1
    ELSE IF q = <<QMARK>> THEN n <= 1
    ELSE TRUE

\* atom i of toks with its quantifier takes exactly the allowed numbers of
\* occurrences, in the automaton of the current state
QuantifierMeaning(toks, i) ==
    \A m \in MatchMessages :
        Accepts(m) <=>
            \E a \in 0..Len(m) : \E n \in 0..Len(m) :
                Allowed(toks[i + 1], n) /\ SplitsAround(toks, i, m, a, n)

\* the construction has ended and no check_string call has been made
JustConstructed == pc = "failed" \/ (pc = "ready" /\ result = "none")

\* C2 (as claimed): in every pattern context, "X+" takes one or more
\* occurrences of X, "X*" zero or more, "X?" zero or one, and nothing else.
C2_QuantifierCounts ==
    LET toks == RefTokensFrom(pattern, 1)
    IN (JustConstructed /\ InGrammar(toks)) =>
           \A i \in 1..(Len(toks) - 1) :
               (~(toks[i] \in Quantifiers) /\ toks[i + 1] \in Quantifiers)
                   => QuantifierMeaning(toks, i)

\* C2, for the patterns the constructor accepts
C2_QuantifierCountsWhenBuilt ==
    LET toks == RefTokensFrom(pattern, 1)
    IN (pc = "ready" /\ result = "none" /\ InGrammar(toks)) =>
           \A i \in 1..(Len(toks) - 1) :
               (~(toks[i] \in Quantifiers) /\ toks[i + 1] \in Quantifiers)
                   => QuantifierMeaning(toks, i)


\* ---------------------------------------------------------------------------
\* The builder, step by step
\* ---------------------------------------------------------------------------
\* the builder is about to process token t
AtToken(t) == pc = "build" /\ ti <= Len(tokens) /\ tokens[ti] = t

\* the builder is about to process an atom: a bracket class, "." or a literal
AtAtom ==
    /\ pc = "build"
    /\ ti <= Len(tokens)
    /\ IsAtom(tokens, ti)
    /\ SupportedToken(tokens[ti])

\* C11: "+" adds a self-loop on last and makes tails exactly {last} with
\* mustChain false, whatever tails held before; the atom or the Termination
\* state that comes right after the "+" has last as its only predecessor.
C11_PlusCollapsesTails ==
    /\ [][AtToken(<<PLUS>>) =>
              /\ heap' = AppendEdge(heap, tmp_next_state, tmp_next_state)
              /\ tmp_next_state' = tmp_next_state
              /\ Tails' = {tmp_next_state}
              /\ necessary' = FALSE]_vars
    /\ [](((pc = "build" \/ Built) /\ ti > 2 /\ tokens[ti - 2] = <<PLUS>>
              /\ IsAtom(tokens, ti - 1))
             => Preds(heap, tmp_next_state) = {tmp_next_state - 1})
    /\ []((Built /\ Len(tokens) >= 1 /\ tokens[Len(tokens)] = <<PLUS>>)
             => Preds(heap, Len(heap)) = {tmp_next_state})

\* C11 witness: a "+" was processed while tails held Start and last, and
\* the atom after it was wired from last alone
C11_Witness ==
    /\ pc = "build"
    /\ ti = 5
    /\ IsAtom(tokens, 1)
    /\ tokens[2] = <<QMARK>>
    /\ tokens[3] = <<PLUS>>
    /\ IsAtom(tokens, 4)
    /\ Preds(heap, 3) = {2}

\* the number of edges from q to s
EdgeCount(h, q, s) ==
    Cardinality({j \in 1..Len(h[q].next_states) : h[q].next_states[j] = s})

\* C12: an atom token creates exactly one new state S, adds edges to S from
\* every state of tails and from no other state and changes no other edge,
\* and then tails = {S}, last = S and mustChain holds; the scan starts with
\* tails = {Start}, last = Start and mustChain true.
C12_AtomStep ==
    /\ [][AtAtom =>
              /\ Len(heap') = Len(heap) + 1
              /\ heap'[Len(heap')].next_states = <<>>
              /\ heap'[Len(heap')].kind \in {"Ascii", "Dot", "CharClass"}
              /\ Preds(heap', Len(heap')) = Tails
              /\ \A q \in 1..Len(heap) :
                     /\ SelectSeq(heap'[q].next_states,
                                  LAMBDA d : d /= Len(heap'))
                            = heap[q].next_states
                     /\ [heap'[q] EXCEPT !.next_states = <<>>]
                            = [heap[q] EXCEPT !.next_states = <<>>]
              /\ tmp_next_state' = Len(heap')
              /\ Tails' = {Len(heap')}
              /\ necessary' = TRUE]_vars
    /\ []((pc = "new" \/ (pc = "build" /\ ti = 1)) =>
              /\ Tails = {curr_state}
              /\ tmp_next_state = curr_state
              /\ necessary
              /\ heap = <<StartState>>)

\* C12 witness: an atom was created with two predecessors
C12_Witness ==
    /\ pc = "build"
    /\ ti > 1
    /\ IsAtom(tokens, ti - 1)
    /\ tmp_next_state = Len(heap)
    /\ Cardinality(Preds(heap, tmp_next_state)) = 2

\* the states with an edge to a Termination state
Accepting(h) ==
    {q \in 1..Len(h) :
        \E d \in Range(h[q].next_states) : h[d].kind = "Termination"}

\* C13: in a finished automaton the states with an edge to the Termination
\* state are exactly the final tails ({last} when mustChain holds, the
\* accumulated prev_states otherwise), and there is exactly one Termination
\* state.
C13_AcceptingAreFinalTails ==
    Built =>
        /\ Accepting(heap) = Tails
        /\ necessary => Accepting(heap) = {Len(heap) - 1}
        /\ {s \in 1..Len(heap) : heap[s].kind = "Termination"} = {Len(heap)}

\* C13 witness: a finished automaton with three accepting states
C13_Witness ==
    /\ Built
    /\ ~necessary
    /\ Cardinality(Accepting(heap)) = 3

RECURSIVE ReachFrom(_, _)
\* the states reachable from the set seen by following edges
ReachFrom(h, seen) ==
    LET more == seen \cup UNION {Range(h[q].next_states) : q \in seen}
    IN IF more = seen THEN seen ELSE ReachFrom(h, more)

\* C14: at every point of the build and in the finished automaton, every
\* state created so far is reachable from Start.
C14_AllReachable ==
    ReachFrom(heap, {curr_state}) = 1..Len(heap)

\* C14 witness: a finished automaton of four states, the last atom of which
\* is reached only through its predecessor
C14_Witness ==
    /\ Built
    /\ Len(heap) = 4
    /\ Preds(heap, 3) = {2}
    /\ Preds(heap, 2) = {1}


\* C15: every automaton, also one built from tokens that begin with a
\* quantifier, has exactly one Start state and Start is the destination of
\* no edge, so check_next never evaluates Start's check_self.
C15_StartNeverTarget ==
    (pc = "build" \/ Built) =>
        /\ {s \in 1..Len(heap) : heap[s].kind = "Start"} = {curr_state}
        /\ Preds(heap, curr_state) = {}


\* ---------------------------------------------------------------------------
\* The matcher against set-based simulations
\* ---------------------------------------------------------------------------
\* one step of the set-based simulation: the successors that accept c
SetStep(h, active, c) ==
    UNION {{d \in Range(h[s].next_states) : check_self(h[d], c)} : s \in active}

RECURSIVE SetActive(_, _, _)
\* the active set after the set-based simulation consumed m
SetActive(h, active, m) ==
    IF m = <<>> THEN active
    ELSE SetActive(h, SetStep(h, active, Head(m)), Tail(m))

\* the verdict of the set-based simulation on an active set
SetVerdict(h, active) ==
    \E s \in active : \E d \in Range(h[s].next_states) : h[d].kind = "Termination"

\* a call of check_string has returned and its verdict is still held
Returned == pc = "ready" /\ result /= "none"

\* C16: after each consumed character the distinct elements of the list
\* states are the active set of the set-based simulation, and the verdict of
\* check_string is the verdict of the set-based simulation.
C16_ListIsSet ==
    /\ pc = "check" =>
           /\ Range(states)
                  = SetActive(heap, {curr_state}, SubSeq(message, 1, pos - 1))
           /\ AnyTermination(heap, states) = SetVerdict(heap, Range(states))
    /\ Returned =>
           (result = "True")
               = SetVerdict(heap, SetActive(heap, {curr_state}, message))

\* C16 witness: after two characters the list holds the same state more than
\* once, next to another state
C16_Witness ==
    /\ pc = "check"
    /\ pos = 3
    /\ Len(states) > Cardinality(Range(states))
    /\ Cardinality(Range(states)) >= 2

\* the states of the list that check_next can extend: a TerminationState
\* returns [] and a state without successors has nothing to extend with
Progressing(h, active) ==
    {s \in Range(active) :
        h[s].kind /= "Termination" /\ h[s].next_states /= <<>>}

\* m starts with its first k characters being those of prefix
HasPrefix(m, prefix) ==
    Len(prefix) <= Len(m) /\ SubSeq(m, 1, Len(prefix)) = prefix

\* C17: once no state of the list can progress, none can after any further
\* character and the call returns False; and check_string returns False for
\* every message that extends a prefix after which no state can progress.
C17_DeadStaysDead ==
    /\ [][(pc = "check" /\ Progressing(heap, states) = {}) =>
              /\ pc' = "check" => Progressing(heap', states') = {}
              /\ pc' = "ready" => result' = "False"]_vars
    /\ [](Built =>
             \A m \in CallMessages : \A k \in 0..Len(m) :
                 Progressing(heap, ActiveAfter(heap, <<curr_state>>,
                                               SubSeq(m, 1, k))) = {}
                     => \A e \in CallMessages :
                            HasPrefix(e, SubSeq(m, 1, k))
                                => ~check_string(heap, curr_state, e))

\* C17 witness: the list holds only the Termination state while a character
\* is still to be consumed
C17_Witness ==
    /\ pc = "check"
    /\ pos <= Len(message)
    /\ states /= <<>>
    /\ Progressing(heap, states) = {}

\* the predecessors of the Termination state: the flagged states
Flagged(h) == Accepting(h)

\* one step of the accepting-flag automaton, which has no Termination state
FlagStep(h, active, c) ==
    UNION {{d \in Range(h[s].next_states) :
                h[d].kind /= "Termination" /\ check_self(h[d], c)} : s \in active}

RECURSIVE FlagActive(_, _, _)
\* the active set of the accepting-flag automaton after consuming m
FlagActive(h, active, m) ==
    IF m = <<>> THEN active
    ELSE FlagActive(h, FlagStep(h, active, Head(m)), Tail(m))

\* the verdict of the accepting-flag automaton on m
FlagVerdict(h, start, m) == FlagActive(h, {start}, m) \cap Flagged(h) /= {}

\* C19: check_string returns the verdict of the automaton with the
\* Termination state removed and its predecessors flagged accepting; the
\* Termination state has no successors and a Termination state held in the
\* list does not make the call return True.
C19_SentinelIsFlag ==
    /\ (pc = "check" /\ pos > Len(message)) =>
           AnyTermination(heap, states) = FlagVerdict(heap, curr_state, message)
    /\ Returned => (result = "True") = FlagVerdict(heap, curr_state, message)
    /\ Built => \A s \in 1..Len(heap) :
                    heap[s].kind = "Termination" => heap[s].next_states = <<>>

\* C19 witness: the loop ended with the Termination state in the list of a
\* message that is an accepted message plus one character, and the verdict
\* is False
C19_Witness ==
    /\ pc = "check"
    /\ pos > Len(message)
    /\ \E i \in 1..Len(states) : heap[states[i]].kind = "Termination"
    /\ check_string(heap, curr_state, SubSeq(message, 1, Len(message) - 1))
    /\ ~AnyTermination(heap, states)


\* ---------------------------------------------------------------------------
\* The exporter
\* ---------------------------------------------------------------------------
RECURSIVE OutDegreeSum(_, _)
\* the number of edges that leave the states of S, plus one for each state
OutDegreeSum(h, S) ==
    IF S = {} THEN 0
    ELSE LET s == CHOOSE x \in S : TRUE
         IN Len(h[s].next_states) + 1 + OutDegreeSum(h, S \ {s})

\* what the while loop still has to do: the queue entries, and the node and
\* the edges of every state not visited yet
DotVariant(h, q, seen) ==
    Len(q) + OutDegreeSum(h, (1..Len(h)) \ seen)

\* the node declarations and the edge declarations among the lines
NodeLines(lines) == SelectSeq(lines, LAMBDA l : l[1] = "node")
EdgeLines(lines) == SelectSeq(lines, LAMBDA l : l[1] = "edge")

\* the edge declarations that leave the node with identifier n
EdgeLinesFrom(lines, n) ==
    SelectSeq(lines, LAMBDA l : l[1] = "edge" /\ l[2] = n)

\* the while loop of to_dot_file has ended and its locals are still in place
DotLoopDone == pc = "dot" /\ queue = <<>>

\* C18: every iteration of the while loop of to_dot_file decreases a natural
\* number, so the traversal ends; no state is declared twice; and when the
\* loop has ended the declared states are the states reachable from Start,
\* each declared once under its own node id, and every visited state has one
\* edge declaration per outgoing edge, in the order of next_states.
C18_DotTraversal ==
    /\ [][(pc = "dot" /\ pc' = "dot") =>
              DotVariant(heap', queue', visited')
                  < DotVariant(heap, queue, visited)]_vars
    /\ [](pc = "dot" =>
              /\ Len(NodeLines(dot_lines)) = Cardinality(visited)
              /\ \A s \in visited :
                     \E i \in 1..Len(dot_lines) :
                         dot_lines[i] = <<"node", state_ids[s],
                                          get_node_label(heap[s])>>)
    /\ [](DotLoopDone =>
              /\ visited = ReachFrom(heap, {curr_state})
              /\ DOMAIN state_ids = visited
              /\ \A s, t \in visited : state_ids[s] = state_ids[t] => s = t
              /\ \A s \in visited :
                     EdgeLinesFrom(dot_lines, state_ids[s])
                         = [j \in 1..Len(heap[s].next_states) |->
                               <<"edge", state_ids[s],
                                 state_ids[heap[s].next_states[j]],
                                 get_weight(heap[heap[s].next_states[j]])>>]
              /\ Len(EdgeLines(dot_lines)) + Len(NodeLines(dot_lines))
                     = OutDegreeSum(heap, visited))

\* C18 witness: the loop has ended on an automaton in which one state has a
\* self-loop twice and two edges to the same other state
C18_Witness ==
    /\ DotLoopDone
    /\ \E s \in visited : \E d \in visited :
           /\ d /= s
           /\ EdgeCount(heap, s, s) = 2
           /\ EdgeCount(heap, s, d) = 2
           /\ Len(EdgeLinesFrom(dot_lines, state_ids[s])) = 4


\* ---------------------------------------------------------------------------
\* The shape of the graph
\* ---------------------------------------------------------------------------
\* the state that is last when token j is processed: Start, or the state of
\* the most recent atom token; states are created in the order of the heap
OwnerOf(toks, j) ==
    1 + Cardinality({i \in 1..(j - 1) : IsAtom(toks, i)})

\* the "*" and "+" tokens processed so far while s was last
LoopTokens(toks, upto, s) ==
    {j \in 1..upto : toks[j] \in {<<STAR>>, <<PLUS>>} /\ OwnerOf(toks, j) = s}

\* C20: every edge is a self-loop or goes to a state created later, and a
\* state has as many self-loops as "*" and "+" tokens were processed while
\* it was last, so none when no "*" or "+" follows it.
C20_ForwardOrSelfLoop ==
    (pc = "build" \/ Built) =>
        /\ \A q \in 1..Len(heap) :
               \A d \in Range(heap[q].next_states) : d >= q
        /\ \A s \in 1..Len(heap) :
               EdgeCount(heap, s, s)
                   = Cardinality(LoopTokens(tokens, ti - 1, s))

\* C20 witness: a finished automaton with a self-loop on an atom state and
\* an edge that skips that state
C20_Witness ==
    /\ Built
    /\ EdgeCount(heap, 2, 2) = 1
    /\ EdgeCount(heap, 1, 3) = 1
    /\ heap[3].kind /= "Termination"

====
